---- MODULE Spec2Model ----
(***************************************************************************)
(* Model of gfxOS2Platform (gfx/thebes/gfxOS2Platform.cpp): the font       *)
(* fallback search FindFontForChar with its set of codepoints known to     *)
(* have no font, the font list refresh UpdateFontList, and the choice of   *)
(* surface backend in CreateOffscreenSurface.                              *)
(*                                                                         *)
(* Every method of the class is one action.  The collaborators             *)
(* (gfxFontconfigUtils, gfxOS2Font::GetOrMakeFont, the cairo face lock,    *)
(* FT_Get_Char_Index) are stubs whose answers are inputs of the action or  *)
(* fixed tables below.  The variable `call` records the last call made on  *)
(* the platform object, with what it did to its collaborators.             *)
(***************************************************************************)
EXTENDS Integers, Sequences, FiniteSets, TLC

VARIABLES mCodepointsWithNoFonts, lockCount, noneReturned, call,
          thread, catalog, recorded, started

\* what only the specification with threads (further down) changes
threadVars == <<thread, catalog, recorded, started>>

vars == <<mCodepointsWithNoFonts, lockCount, noneReturned, call,
          thread, catalog, recorded, started>>

(* ------------------------------ bounds --------------------------------- *)

\* longest list of concrete families the stub catalog appends to the generics
MaxCandidates == 2
\* with threads: the FindFontForChar calls and UpdateFontList calls started
MaxCalls == 2
MaxUpdates == 1
\* Resolve is not started when it would leave a face locked more often
MaxLockCount == 1

(* --------------------------- nsresult values --------------------------- *)

NS_OK == "NS_OK"
NS_ERROR_FAILURE == "NS_ERROR_FAILURE"
Results == {NS_OK, NS_ERROR_FAILURE}

NS_SUCCEEDED(rv) == rv = NS_OK

(* ------------------------- the stub collaborators ---------------------- *)

nullptr == "nullptr"

Generics == {"serif", "sans-serif", "monospace"}
Concrete == {"Arial", "Mincho", "Symbol"}
Families == Generics \cup Concrete

\* languages of the reference font's style
Styles == {"x-western", "ja"}

\* codepoints FindFontForChar is asked for: a C0 control (0x1f), 'A' (0x41)
\* and HIRAGANA LETTER A (0x3042)
Codepoints == {31, 65, 12354}

\* gfxOS2Font::GetOrMakeFont(name, style): the font instance, or nullptr.
\* "Mincho" can only be instantiated for a Japanese style.
GetOrMakeFont(name, style) ==
    IF name = "Mincho" /\ style # "ja" THEN nullptr ELSE name

\* cairo_ft_scaled_font_lock_face(font->CairoScaledFont()): TRUE iff a face
\* comes back.  The "Symbol" font made for a Japanese style has no face.
LockFace(font, style) == ~(font = "Symbol" /\ style = "ja")

\* face->charmap: "Symbol" has no charmap
HasCharmap(font) == font # "Symbol"

\* FT_Get_Char_Index(face, ch): the glyph id, 0 for "no glyph"
FT_Get_Char_Index(font, ch) ==
    CASE font = "Arial" /\ ch = 65 -> 36
      [] font = "Mincho" /\ ch = 65 -> 34
      [] font = "Mincho" /\ ch = 12354 -> 1123
      [] font \in Generics /\ ch \in {65, 12354} -> 3
      [] OTHER -> 0

\* the sequences of at most n different elements of S
RECURSIVE SeqsUpTo(_, _)
SeqsUpTo(S, n) ==
    IF n = 0 THEN {<<>>}
    ELSE LET shorter == SeqsUpTo(S, n - 1)
             longest == {t \in shorter : Len(t) = n - 1}
         IN  shorter \cup
             UNION {{Append(t, x) : x \in S \ {t[i] : i \in 1..(n - 1)}} :
                        t \in longest}

GenericEntries == <<"serif", "sans-serif", "monospace">>

\* lists the stub catalog can return: the generic entries (or a prefix of
\* them) followed by up to MaxCandidates different concrete families
FontLists ==
    {SubSeq(GenericEntries, 1, k) : k \in 0..2}
    \cup {GenericEntries \o tail : tail \in SeqsUpTo(Concrete, MaxCandidates)}

\* names given to ResolveFontName, GetStandardFamilyName, CreateFontGroup
FontNames == {"Arial", "serif"}

(* ------------------------- the recorded last call ---------------------- *)

\* Fields: op, the method called; aCh, style, the arguments of
\* FindFontForChar; rv, the nsresult of the catalog call made (or returned);
\* aFontName, the name given to the pass-through calls;
\* fontList, the list the catalog filled in; font, the font returned;
\* lookups, the 0-based list indexes passed to GetOrMakeFont, in order;
\* catalogCalls, the number of sFontconfigUtils->GetFontList calls made;
\* lockCalls / unlockCalls, the faces locked and unlocked by the call;
\* knownNone, whether an earlier FindFontForChar of aCh had returned null
\* since the last UpdateFontList; bitsAtEntry and bitsAtCatalogCall, the set
\* of codepoints when UpdateFontList was entered and at the moment it called
\* sFontconfigUtils->UpdateFontList; contentType,
\* width, height, stride, surf, the request and result of
\* CreateOffscreenSurface.
NoCall ==
    [op |-> "gfxOS2Platform", aCh |-> 0, style |-> "", rv |-> NS_OK,
     aFontName |-> "", fontList |-> <<>>, font |-> nullptr, lookups |-> <<>>,
     catalogCalls |-> 0, lockCalls |-> 0, unlockCalls |-> 0,
     knownNone |-> FALSE, bitsAtEntry |-> {}, bitsAtCatalogCall |-> {},
     contentType |-> "", width |-> 0, height |-> 0, stride |-> 0,
     surf |-> ""]

(* ------------------------- threads and catalog ------------------------- *)

\* The specification with threads runs FindFontForChar and UpdateFontList
\* one statement at a time on two threads.  thread[t] holds the position
\* (pc, named after the statement about to run) and the locals of thread t;
\* catalog is the font list the catalog holds and the number of successful
\* refreshes (epoch); recorded[c] is the epoch of the list read by the call
\* that last set the bit of c, and how often the bit was set, since the
\* last reset; started counts the calls begun.
Threads == {"t1", "t2"}

IdleThread ==
    [pc |-> "idle", aCh |-> 0, style |-> "", rv |-> NS_OK, fontList |-> <<>>,
     i |-> 0, lookups |-> <<>>, catalogCalls |-> 0, lockCalls |-> 0,
     unlockCalls |-> 0, epoch |-> 0]

NotRecorded == [epoch |-> -1, times |-> 0]

(* ----------------------------- constructor ----------------------------- *)

\* gfxOS2Platform::gfxOS2Platform(): the set of codepoints is default
\* constructed (empty); no face is locked.
Init ==
    /\ mCodepointsWithNoFonts = {}
    /\ lockCount = [f \in Families |-> 0]
    /\ noneReturned = {}
    /\ call = NoCall
    /\ thread = [t \in Threads |-> IdleThread]
    /\ catalog = [fontList |-> GenericEntries, epoch |-> 0]
    /\ recorded = [c \in Codepoints |-> NotRecorded]
    /\ started = [calls |-> 0, updates |-> 0]

(* --------------------------- FindFontForChar --------------------------- *)

\* index of the first list entry the loop looks at
kFirstFontIndex == 3

\* a slip: any face with a charmap is taken, whatever the glyph id
IsTheFontAlways(gid) == TRUE

\* `gid != 0`: the face has a glyph for the character
IsTheFont(gid) == gid # 0

\* One pass of the loop body for the list entry `name`.  `found` says the
\* body returned the font; `locked` and `unlocked` count the calls of
\* cairo_ft_scaled_font_lock_face that gave a face and of
\* cairo_ft_scaled_font_unlock_face.
ExamineFont(name, style, aCh) ==
    LET font == GetOrMakeFont(name, style)
    IN  IF font = nullptr
        THEN [font |-> font, found |-> FALSE, locked |-> 0, unlocked |-> 0]
        ELSE IF ~LockFace(font, style)
        THEN [font |-> font, found |-> FALSE, locked |-> 0, unlocked |-> 0]
        ELSE IF ~HasCharmap(font)
        THEN [font |-> font, found |-> FALSE, locked |-> 1, unlocked |-> 1]
        ELSE IF IsTheFont(FT_Get_Char_Index(font, aCh))
        THEN [font |-> font, found |-> TRUE, locked |-> 1, unlocked |-> 1]
        ELSE [font |-> font, found |-> FALSE, locked |-> 1, unlocked |-> 0]

\* The loop `for (i = ...; i < fontList.Length(); i++)` from index i on,
\* with the faces' lock counts and the calls made so far.
RECURSIVE ScanFrom(_, _, _, _, _)
ScanFrom(fontList, style, aCh, i, acc) ==
    IF i >= Len(fontList)
    THEN [acc EXCEPT !.font = nullptr]
    ELSE LET e == ExamineFont(fontList[i + 1], style, aCh)
             held == e.locked - e.unlocked
             next == [font |-> nullptr,
                      locks |-> IF held = 0 THEN acc.locks
                                ELSE [acc.locks EXCEPT ![e.font] = @ + held],
                      lookups |-> Append(acc.lookups, i),
                      lockCalls |-> acc.lockCalls + e.locked,
                      unlockCalls |-> acc.unlockCalls + e.unlocked]
         IN  IF e.found
             THEN [next EXCEPT !.font = e.font]
             ELSE ScanFrom(fontList, style, aCh, i + 1, next)

NoScan(locks) ==
    [font |-> nullptr, locks |-> locks, lookups |-> <<>>,
     lockCalls |-> 0, unlockCalls |-> 0]

\* a slip: the loop starts at index 0 and looks at the generic entries too
ScanFontListFromZero(fontList, style, aCh, locks) ==
    ScanFrom(fontList, style, aCh, 0, NoScan(locks))

\* a slip: the loop starts one entry early, at the last generic entry
ScanFontListFromTwo(fontList, style, aCh, locks) ==
    ScanFrom(fontList, style, aCh, 2, NoScan(locks))

\* the whole loop over the list the catalog returned
ScanFontList(fontList, style, aCh, locks) ==
    ScanFrom(fontList, style, aCh, kFirstFontIndex, NoScan(locks))

\* the block guarded by NS_SUCCEEDED(rv)
SearchFonts(rv, fontList, style, aCh, locks) ==
    IF NS_SUCCEEDED(rv) THEN ScanFontList(fontList, style, aCh, locks)
    ELSE NoScan(locks)

\* a slip: the failed search is not remembered
BitsAfterSearchNoSet(bits, aCh, rv, font) == bits

\* a slip: the failed search replaces the set instead of adding to it
BitsAfterSearchOverwrite(bits, aCh, rv, font) ==
    IF font # nullptr THEN bits ELSE {aCh}

\* a slip: the bit is set on the way out even when a font was found
BitsAfterSearchAlways(bits, aCh, rv, font) == bits \cup {aCh}

\* a slip: the bit is flipped instead of set
BitsAfterSearchToggle(bits, aCh, rv, font) ==
    IF font # nullptr THEN bits
    ELSE IF aCh \in bits THEN bits \ {aCh} ELSE bits \cup {aCh}

\* the set of codepoints when FindFontForChar, past the test at its top,
\* returns `font` after a catalog call that returned rv
BitsAfterSearch(bits, aCh, rv, font) ==
    IF font # nullptr THEN bits ELSE bits \cup {aCh}

\* the early return: mCodepointsWithNoFonts.test(aCh)
FindFontCached(aCh, style) ==
    /\ aCh \in mCodepointsWithNoFonts
    /\ call' = [NoCall EXCEPT !.op = "FindFontForChar", !.aCh = aCh,
                              !.style = style,
                              !.knownNone = (aCh \in noneReturned)]
    /\ noneReturned' = noneReturned \cup {aCh}
    /\ UNCHANGED <<mCodepointsWithNoFonts, lockCount>>
    /\ UNCHANGED threadVars

\* the search: the catalog answers rv and, on success, fontList
FindFontSearch(aCh, style, rv, fontList) ==
    /\ aCh \notin mCodepointsWithNoFonts
    /\ LET scan == SearchFonts(rv, fontList, style, aCh, lockCount)
       IN  /\ \A f \in Families : scan.locks[f] <= MaxLockCount
           /\ mCodepointsWithNoFonts' =
                  BitsAfterSearch(mCodepointsWithNoFonts, aCh, rv, scan.font)
           /\ lockCount' = scan.locks
           /\ noneReturned' = IF scan.font = nullptr
                              THEN noneReturned \cup {aCh} ELSE noneReturned
           /\ call' = [NoCall EXCEPT !.op = "FindFontForChar", !.aCh = aCh,
                                     !.style = style, !.rv = rv,
                                     !.fontList = fontList,
                                     !.font = scan.font,
                                     !.lookups = scan.lookups,
                                     !.catalogCalls = 1,
                                     !.lockCalls = scan.lockCalls,
                                     !.unlockCalls = scan.unlockCalls,
                                     !.knownNone = (aCh \in noneReturned)]
    /\ UNCHANGED threadVars

FindFontForChar ==
    \E aCh \in Codepoints, style \in Styles :
        \/ FindFontCached(aCh, style)
        \/ \E fontList \in FontLists :
               FindFontSearch(aCh, style, NS_OK, fontList)
        \/ FindFontSearch(aCh, style, NS_ERROR_FAILURE, <<>>)

(* ----------------------------- UpdateFontList -------------------------- *)

\* a slip: the reset is left out
BitsAfterResetKept(bits) == bits

\* mCodepointsWithNoFonts.reset()
BitsAfterReset(bits) == {}

\* a slip: the set is reset only when the catalog's refresh succeeded
BitsAfterUpdateOnSuccess(bits, rv) ==
    ((IF NS_SUCCEEDED(rv) THEN {} ELSE bits) \cup (0..31)) \cup (127..159)

\* the set of codepoints when UpdateFontList returns rv: the reset, then
\* SetRange(0, 0x1f) and SetRange(0x7f, 0x9f), whatever the catalog answered
BitsAfterUpdate(bits, rv) ==
    (BitsAfterReset(bits) \cup (0..31)) \cup (127..159)

UpdateFontList ==
    \E rv \in Results :
        /\ mCodepointsWithNoFonts' = BitsAfterUpdate(mCodepointsWithNoFonts, rv)
        /\ noneReturned' = {}
        /\ call' = [NoCall EXCEPT !.op = "UpdateFontList", !.rv = rv,
                       !.bitsAtEntry = mCodepointsWithNoFonts,
                       !.bitsAtCatalogCall =
                           BitsAfterReset(mCodepointsWithNoFonts)]
        /\ UNCHANGED lockCount
        /\ UNCHANGED threadVars

(* ------------------- calls handed on to the catalog -------------------- *)

GetFontList ==
    \E style \in Styles, rv \in Results :
        /\ call' = [NoCall EXCEPT !.op = "GetFontList", !.style = style,
                       !.rv = rv, !.catalogCalls = 1]
        /\ UNCHANGED <<mCodepointsWithNoFonts, lockCount, noneReturned>>
        /\ UNCHANGED threadVars

ResolveFontName ==
    \E aFontName \in FontNames, rv \in Results :
        /\ call' = [NoCall EXCEPT !.op = "ResolveFontName",
                       !.aFontName = aFontName, !.rv = rv]
        /\ UNCHANGED <<mCodepointsWithNoFonts, lockCount, noneReturned>>
        /\ UNCHANGED threadVars

GetStandardFamilyName ==
    \E aFontName \in FontNames, rv \in Results :
        /\ call' = [NoCall EXCEPT !.op = "GetStandardFamilyName",
                       !.aFontName = aFontName, !.rv = rv]
        /\ UNCHANGED <<mCodepointsWithNoFonts, lockCount, noneReturned>>
        /\ UNCHANGED threadVars

CreateFontGroup ==
    \E aFamilies \in FontNames, style \in Styles :
        /\ call' = [NoCall EXCEPT !.op = "CreateFontGroup",
                       !.aFontName = aFamilies, !.style = style]
        /\ UNCHANGED <<mCodepointsWithNoFonts, lockCount, noneReturned>>
        /\ UNCHANGED threadVars

(* ------------------------ CreateOffscreenSurface ----------------------- *)

ContentTypes == {"CONTENT_COLOR", "CONTENT_ALPHA", "CONTENT_COLOR_ALPHA"}

\* the sizes asked for
Widths == {0, 32, 64}
Heights == {32, 33, 64, 65}

\* gfxPlatform::OptimalFormatForContent
OptimalFormatForContent(contentType) ==
    CASE contentType = "CONTENT_COLOR" -> "ImageFormatRGB24"
      [] contentType = "CONTENT_ALPHA" -> "ImageFormatA8"
      [] OTHER -> "ImageFormatARGB32"

BitsPerPixel(format) ==
    CASE format = "ImageFormatARGB32" -> 32
      [] format = "ImageFormatRGB24" -> 32
      [] format = "ImageFormatA8" -> 8
      [] OTHER -> 0

\* the sizes asked for where the footprint leaves the range of an int
WideWidths == {0, 1, 1024, 16384, 65536, 67108864}
WideHeights == {0, 1, 4097, 32768, 65536, 262144, 1048576}

\* cairo_format_stride_for_width: the bytes of a row, rounded up to a
\* multiple of 4; -1 for a format it does not know and for a width whose
\* row does not fit an int
RowStride(format, width) ==
    IF BitsPerPixel(format) = 0 THEN -1
    ELSE IF width >= (2147483647 - 7) \div BitsPerPixel(format) THEN -1
    ELSE (((BitsPerPixel(format) * width + 7) \div 8 + 3) \div 4) * 4

\* the low 32 bits of a * b as a signed int, for 0 <= a, b < 2^31, worked
\* out in 16-bit and 8-bit pieces so that no partial product leaves 31 bits
MulLow32(a, b) ==
    LET a0 == a % 65536
        a1 == a \div 65536
        b0 == b % 65536
        b1 == b \div 65536
        t1 == (a0 % 256) * b0
        t2 == (a0 \div 256) * b0
        low == (t2 % 256) * 256 + t1
        lo16 == low % 65536
        carry == (t2 \div 256) + (low \div 65536)
        hi16 == (carry + ((a1 * b0) % 65536) + ((a0 * b1) % 65536)) % 65536
    IN  IF hi16 >= 32768 THEN (hi16 - 65536) * 65536 + lo16
        ELSE hi16 * 65536 + lo16

\* int multiplication, wrapping modulo 2^32; b is not negative
Mul32(a, b) ==
    IF a >= 0 THEN MulLow32(a, b)
    ELSE LET p == MulLow32(-a, b)
         IN  IF p = -2147483647 - 1 THEN p ELSE -p

\* `stride * aSize.height`, an int
Footprint(stride, height) == Mul32(stride, height)

\* the largest footprint that gets a standard image surface
kSmallSurfaceBytes == 4096

\* a slip: `<` for `<=`
IsSmallSurfaceStrict(stride, height) ==
    Footprint(stride, height) < kSmallSurfaceBytes

\* `stride * aSize.height <= 4096`
IsSmallSurface(stride, height) == Footprint(stride, height) <= kSmallSurfaceBytes

CreateSurface(width, height, contentType) ==
    LET format == OptimalFormatForContent(contentType)
        stride == RowStride(format, width)
    IN  /\ call' = [NoCall EXCEPT !.op = "CreateOffscreenSurface",
                       !.contentType = contentType, !.width = width,
                       !.height = height, !.stride = stride,
                       !.surf = IF IsSmallSurface(stride, height)
                                THEN "gfxImageSurface"
                                ELSE "gfxOS2Surface"]
        /\ UNCHANGED <<mCodepointsWithNoFonts, lockCount, noneReturned>>
        /\ UNCHANGED threadVars

CreateOffscreenSurface ==
    \E width \in Widths, height \in Heights, contentType \in ContentTypes :
        CreateSurface(width, height, contentType)

\* the same call with the wide sizes
CreateOffscreenSurfaceWide ==
    \E width \in WideWidths, height \in WideHeights,
       contentType \in ContentTypes :
        CreateSurface(width, height, contentType)

(* ----------------------------- specification --------------------------- *)

Next ==
    \/ FindFontForChar
    \/ UpdateFontList
    \/ GetFontList
    \/ ResolveFontName
    \/ GetStandardFamilyName
    \/ CreateFontGroup
    \/ CreateOffscreenSurface

Spec == Init /\ [][Next]_vars

\* the platform asked for surfaces of the wide sizes only
NextWide == CreateOffscreenSurfaceWide

SpecWide == Init /\ [][NextWide]_vars

(* ------------------ the calls, one statement at a time ----------------- *)

\* The class has no lock: two threads calling into the platform take turns
\* statement by statement.  Each call of the set (test, set, reset,
\* SetRange) is one step.  The face lock is a counter
\* (cairo_ft_scaled_font_lock_face does not keep a mutex held), so a face
\* left locked does not stop another thread.

\* codepoints and font lists used with threads
ThreadCodepoints == {31, 65}
CatalogLists ==
    {GenericEntries \o <<"Symbol">>, GenericEntries \o <<"Symbol", "Arial">>}

\* the platform after its first UpdateFontList, no call under way
InitThreads ==
    /\ mCodepointsWithNoFonts = BitsAfterUpdate({}, NS_OK)
    /\ lockCount = [f \in Families |-> 0]
    /\ noneReturned = {}
    /\ call = NoCall
    /\ thread = [t \in Threads |-> IdleThread]
    /\ catalog \in {[fontList |-> l, epoch |-> 0] : l \in CatalogLists}
    /\ recorded = [c \in Codepoints |-> NotRecorded]
    /\ started = [calls |-> 0, updates |-> 0]

\* thread t calls FindFontForChar(aCh, font of style)
BeginFindFont(t, aCh, style) ==
    /\ thread[t].pc = "idle"
    /\ started.calls < MaxCalls
    /\ thread' = [thread EXCEPT ![t] =
                      [IdleThread EXCEPT !.pc = "test", !.aCh = aCh,
                                         !.style = style]]
    /\ started' = [started EXCEPT !.calls = @ + 1]
    /\ UNCHANGED <<mCodepointsWithNoFonts, lockCount, noneReturned, call,
                   catalog, recorded>>

\* line 139: mCodepointsWithNoFonts.test(aCh), and the return of line 140
TestStep(t) ==
    /\ thread[t].pc = "test"
    /\ IF thread[t].aCh \in mCodepointsWithNoFonts
       THEN /\ thread' = [thread EXCEPT ![t] = IdleThread]
            /\ call' = [NoCall EXCEPT !.op = "FindFontForChar",
                                      !.aCh = thread[t].aCh,
                                      !.style = thread[t].style]
       ELSE /\ thread' = [thread EXCEPT ![t].pc = "GetFontList"]
            /\ UNCHANGED call
    /\ UNCHANGED <<mCodepointsWithNoFonts, lockCount, noneReturned, catalog,
                   recorded, started>>

\* line 149: GetFontList answers rv and, on success, the catalog's list
GetFontListStep(t) ==
    /\ thread[t].pc = "GetFontList"
    /\ \E rv \in Results :
           thread' = [thread EXCEPT ![t] =
               [@ EXCEPT !.rv = rv,
                         !.fontList = IF NS_SUCCEEDED(rv)
                                      THEN catalog.fontList ELSE <<>>,
                         !.epoch = catalog.epoch,
                         !.catalogCalls = @ + 1,
                         !.i = kFirstFontIndex,
                         !.pc = IF NS_SUCCEEDED(rv) THEN "loop" ELSE "set"]]
    /\ UNCHANGED <<mCodepointsWithNoFonts, lockCount, noneReturned, call,
                   catalog, recorded, started>>

\* a slip: the index moves on only from odd entries, so the loop stays at
\* an even one
NextIndexStuck(i) == IF i % 2 = 1 THEN i + 1 ELSE i

\* `i++`
NextIndex(i) == i + 1

\* lines 152-174: the loop test and one pass of the body
LoopStep(t) ==
    /\ thread[t].pc = "loop"
    /\ LET me == thread[t]
       IN  IF me.i >= Len(me.fontList)
           THEN /\ thread' = [thread EXCEPT ![t].pc = "set"]
                /\ UNCHANGED <<lockCount, call>>
           ELSE LET e == ExamineFont(me.fontList[me.i + 1], me.style, me.aCh)
                    held == e.locked - e.unlocked
                    after == [me EXCEPT !.lookups = Append(@, me.i),
                                        !.lockCalls = @ + e.locked,
                                        !.unlockCalls = @ + e.unlocked,
                                        !.i = NextIndex(@)]
                IN  /\ lockCount' = IF held = 0 THEN lockCount
                                    ELSE [lockCount EXCEPT ![e.font] = @ + held]
                    /\ IF e.found
                       THEN /\ thread' = [thread EXCEPT ![t] = IdleThread]
                            /\ call' = [NoCall EXCEPT
                                   !.op = "FindFontForChar",
                                   !.aCh = me.aCh, !.style = me.style,
                                   !.rv = me.rv, !.fontList = me.fontList,
                                   !.font = e.font,
                                   !.lookups = after.lookups,
                                   !.catalogCalls = me.catalogCalls,
                                   !.lockCalls = after.lockCalls,
                                   !.unlockCalls = after.unlockCalls]
                       ELSE /\ thread' = [thread EXCEPT ![t] = after]
                            /\ UNCHANGED call
    /\ UNCHANGED <<mCodepointsWithNoFonts, noneReturned, catalog, recorded,
                   started>>

\* lines 178-179: mCodepointsWithNoFonts.set(aCh); return nullptr
SetStep(t) ==
    /\ thread[t].pc = "set"
    /\ LET me == thread[t]
       IN  /\ mCodepointsWithNoFonts' =
                  BitsAfterSearch(mCodepointsWithNoFonts, me.aCh, me.rv, nullptr)
           /\ recorded' = [recorded EXCEPT ![me.aCh] =
                  [epoch |-> me.epoch, times |-> @.times + 1]]
           /\ call' = [NoCall EXCEPT !.op = "FindFontForChar",
                                     !.aCh = me.aCh, !.style = me.style,
                                     !.rv = me.rv, !.fontList = me.fontList,
                                     !.lookups = me.lookups,
                                     !.catalogCalls = me.catalogCalls,
                                     !.lockCalls = me.lockCalls,
                                     !.unlockCalls = me.unlockCalls]
           /\ thread' = [thread EXCEPT ![t] = IdleThread]
    /\ UNCHANGED <<lockCount, noneReturned, catalog, started>>

\* thread t calls UpdateFontList
BeginUpdate(t) ==
    /\ thread[t].pc = "idle"
    /\ started.updates < MaxUpdates
    /\ thread' = [thread EXCEPT ![t] = [IdleThread EXCEPT !.pc = "reset"]]
    /\ started' = [started EXCEPT !.updates = @ + 1]
    /\ UNCHANGED <<mCodepointsWithNoFonts, lockCount, noneReturned, call,
                   catalog, recorded>>

\* line 93: mCodepointsWithNoFonts.reset()
ResetStep(t) ==
    /\ thread[t].pc = "reset"
    /\ mCodepointsWithNoFonts' = BitsAfterReset(mCodepointsWithNoFonts)
    /\ recorded' = [c \in Codepoints |-> NotRecorded]
    /\ thread' = [thread EXCEPT ![t].pc = "UpdateFontList"]
    /\ UNCHANGED <<lockCount, noneReturned, call, catalog, started>>

\* line 95: the catalog refreshes its list, or fails and keeps it
CatalogUpdateStep(t) ==
    /\ thread[t].pc = "UpdateFontList"
    /\ \/ \E l \in CatalogLists :
              /\ catalog' = [fontList |-> l, epoch |-> catalog.epoch + 1]
              /\ thread' = [thread EXCEPT ![t].rv = NS_OK,
                                          ![t].pc = "SetRangeC0"]
       \/ /\ thread' = [thread EXCEPT ![t].rv = NS_ERROR_FAILURE,
                                      ![t].pc = "SetRangeC0"]
          /\ UNCHANGED catalog
    /\ UNCHANGED <<mCodepointsWithNoFonts, lockCount, noneReturned, call,
                   recorded, started>>

\* line 98: SetRange(0, 0x1f)
SetRangeC0Step(t) ==
    /\ thread[t].pc = "SetRangeC0"
    /\ mCodepointsWithNoFonts' = mCodepointsWithNoFonts \cup (0..31)
    /\ thread' = [thread EXCEPT ![t].pc = "SetRangeC1"]
    /\ UNCHANGED <<lockCount, noneReturned, call, catalog, recorded, started>>

\* lines 99-100: SetRange(0x7f, 0x9f); return rv
SetRangeC1Step(t) ==
    /\ thread[t].pc = "SetRangeC1"
    /\ mCodepointsWithNoFonts' = mCodepointsWithNoFonts \cup (127..159)
    /\ call' = [NoCall EXCEPT !.op = "UpdateFontList", !.rv = thread[t].rv]
    /\ thread' = [thread EXCEPT ![t] = IdleThread]
    /\ UNCHANGED <<lockCount, noneReturned, catalog, recorded, started>>

\* a statement of the call thread t is in
Step(t) ==
    \/ TestStep(t)
    \/ GetFontListStep(t)
    \/ LoopStep(t)
    \/ SetStep(t)
    \/ ResetStep(t)
    \/ CatalogUpdateStep(t)
    \/ SetRangeC0Step(t)
    \/ SetRangeC1Step(t)

NextThreads ==
    \E t \in Threads :
        \/ \E aCh \in ThreadCodepoints, style \in Styles :
               BeginFindFont(t, aCh, style)
        \/ BeginUpdate(t)
        \/ Step(t)

SpecThreads == InitThreads /\ [][NextThreads]_vars

\* every thread that is inside a call gets to run its next statement
SpecThreadsFair == SpecThreads /\ \A t \in Threads : WF_vars(Step(t))

(* ------------------------------- properties ---------------------------- *)

\* the C0 and C1 controls, 0x00-0x1f and 0x7f-0x9f
ControlCodepoints == (0..31) \cup (127..159)

IsFindFont == call.op = "FindFontForChar"
IsUpdate == call.op = "UpdateFontList"

\* FindFontForChar got past the test of the set and called the catalog
Searched == IsFindFont /\ call.catalogCalls = 1

\* C1: when the catalog's GetFontList fails inside FindFontForChar, the call
\* returns no font and the bit of the requested codepoint is not set.
\* The code sets the bit after a failed catalog call as well.
C1_FailureNotRemembered ==
    (Searched /\ call.rv = NS_ERROR_FAILURE) =>
        /\ call.font = nullptr
        /\ call.aCh \notin mCodepointsWithNoFonts

\* C2: every face locked by FindFontForChar is unlocked again: the call
\* makes as many unlock calls as lock calls that gave a face, and no face is
\* left locked.  The code does not unlock a face whose glyph id is 0.
C2_EveryLockReleased ==
    /\ \A f \in Families : lockCount[f] = 0
    /\ call.lockCalls = call.unlockCalls

\* C3: once FindFontForChar has returned null for a codepoint, every later
\* call for that codepoint (any style) before the next UpdateFontList
\* returns null without a catalog call, a GetOrMakeFont call or a face lock.
C3_NoneIsRemembered ==
    (IsFindFont /\ call.knownNone) =>
        /\ call.font = nullptr
        /\ call.catalogCalls = 0
        /\ call.lookups = <<>>
        /\ call.lockCalls = 0

C3_Witness ==
    /\ IsFindFont /\ call.knownNone
    /\ call.aCh = 65 /\ call.style = "ja"
    /\ call.catalogCalls = 0

\* C4: every control codepoint is in the set right after construction and
\* right after every UpdateFontList, so FindFontForChar of a control
\* codepoint returns null without a catalog call.  The constructor leaves the
\* set empty.
C4_ControlsAlwaysPreset ==
    /\ (call.op = "gfxOS2Platform" \/ IsUpdate) =>
           ControlCodepoints \subseteq mCodepointsWithNoFonts
    /\ (IsFindFont /\ call.aCh \in ControlCodepoints) =>
           (call.font = nullptr /\ call.catalogCalls = 0)

\* C5: FindFontForChar never hands one of the first three list entries to
\* GetOrMakeFont: every lookup is for a list index of 3 or more, and for
\* the list <<generic, generic, generic, Arial>> and 'A' exactly one lookup
\* (index 3) is made and the Arial font is returned.
C5_GenericsSkipped ==
    IsFindFont =>
        /\ \A k \in 1..Len(call.lookups) : call.lookups[k] >= 3
        /\ (Searched /\ call.rv = NS_OK /\ call.aCh = 65
            /\ call.fontList = GenericEntries \o <<"Arial">>) =>
               (call.lookups = <<3>> /\ call.font = "Arial")

C5_Witness ==
    /\ Searched /\ call.rv = NS_OK /\ call.aCh = 65
    /\ call.fontList = GenericEntries \o <<"Arial">>
    /\ call.lookups = <<3>> /\ call.font = "Arial"

\* the list entry at 0-based index i has a font that can be made for the
\* style, whose face locks and has a charmap with a glyph for aCh
Covers(fontList, i, style, aCh) ==
    LET font == GetOrMakeFont(fontList[i + 1], style)
    IN  /\ font # nullptr
        /\ LockFace(font, style)
        /\ HasCharmap(font)
        /\ FT_Get_Char_Index(font, aCh) # 0

\* C6: after a successful catalog call FindFontForChar returns the font of
\* the first list entry, from index 3 on, that covers the codepoint; the
\* entries before it are each looked up once, in order, and none after it;
\* without such an entry every entry from index 3 on is looked up and null
\* is returned.  A font is never returned unless its glyph id is nonzero.
C6_FirstMatchWins ==
    (Searched /\ call.rv = NS_OK) =>
        LET last == Len(call.fontList) - 1
            hits == {i \in 3..last :
                         Covers(call.fontList, i, call.style, call.aCh)}
        IN  /\ hits = {} =>
                /\ call.font = nullptr
                /\ call.lookups = [k \in 1..(IF last >= 3 THEN last - 2 ELSE 0)
                                       |-> k + 2]
            /\ hits # {} =>
                LET first == CHOOSE i \in hits : \A j \in hits : i <= j
                IN  /\ call.font =
                           GetOrMakeFont(call.fontList[first + 1], call.style)
                    /\ call.lookups = [k \in 1..(first - 2) |-> k + 2]
            /\ call.font # nullptr =>
                   FT_Get_Char_Index(call.font, call.aCh) # 0

C6_Witness ==
    /\ Searched /\ call.rv = NS_OK /\ call.aCh = 65 /\ call.style = "ja"
    /\ call.fontList = GenericEntries \o <<"Symbol", "Mincho">>
    /\ call.font = "Mincho"
    /\ call.lookups = <<3, 4>>

\* C7: CreateOffscreenSurface makes a gfxImageSurface exactly when
\* stride * height <= 4096 and a gfxOS2Surface otherwise, for every content
\* type: 4096 bytes give the image surface, one more row the OS/2 surface.
C7_SmallSurfaceThreshold ==
    call.op = "CreateOffscreenSurface" =>
        /\ (call.surf = "gfxImageSurface") <=> (call.stride * call.height <= 4096)
        /\ (call.surf = "gfxOS2Surface") <=> (call.stride * call.height > 4096)

C7_Witness ==
    /\ call.op = "CreateOffscreenSurface"
    /\ call.contentType = "CONTENT_ALPHA"
    /\ call.stride * call.height = 4096
    /\ call.surf = "gfxImageSurface"

\* C8: after a successful UpdateFontList every bit that was set for a
\* non-control codepoint is clear and every control codepoint's bit is set.
C8_UpdateClearsNegatives ==
    (IsUpdate /\ call.rv = NS_OK) =>
        /\ \A c \in call.bitsAtEntry \ ControlCodepoints :
               c \notin mCodepointsWithNoFonts
        /\ ControlCodepoints \subseteq mCodepointsWithNoFonts

C8_Witness ==
    /\ IsUpdate /\ call.rv = NS_OK
    /\ 65 \in call.bitsAtEntry
    /\ 65 \notin mCodepointsWithNoFonts
    /\ 31 \in mCodepointsWithNoFonts

\* C9 as stated: the bits are not cleared before the catalog's
\* UpdateFontList is called, and when that call fails the bits recorded
\* before are left as they were.
C9_ResetOnlyAfterSuccess ==
    IsUpdate =>
        /\ call.bitsAtEntry \subseteq call.bitsAtCatalogCall
        /\ call.rv = NS_ERROR_FAILURE =>
               call.bitsAtEntry \subseteq mCodepointsWithNoFonts

\* C9 (amended): UpdateFontList resets the set on every call, whatever the
\* catalog answers: all bits are clear when the catalog's UpdateFontList is
\* called, and on return, failed or not, exactly the control codepoints are
\* set.
C9_ResetOnEveryUpdate ==
    IsUpdate =>
        /\ call.bitsAtCatalogCall = {}
        /\ mCodepointsWithNoFonts = ControlCodepoints

C9_Witness ==
    /\ IsUpdate /\ call.rv = NS_ERROR_FAILURE
    /\ 12354 \in call.bitsAtEntry
    /\ 12354 \notin mCodepointsWithNoFonts

\* C10: a bit that is set stays set across every call other than
\* UpdateFontList; only UpdateFontList takes bits out of the set.
C10_BitsOnlyClearedByUpdate ==
    [][call'.op # "UpdateFontList" =>
           mCodepointsWithNoFonts \subseteq mCodepointsWithNoFonts']_vars

C10_Witness ==
    /\ IsFindFont /\ call.aCh = 65 /\ call.font = "Arial"
    /\ 12354 \in mCodepointsWithNoFonts

\* C11: when the catalog call succeeds with fewer than 4 entries,
\* FindFontForChar of a codepoint that is not in the set makes no
\* GetOrMakeFont call, returns null and sets the codepoint's bit.
C11_ShortListIsAMiss ==
    (Searched /\ call.rv = NS_OK /\ Len(call.fontList) < 4) =>
        /\ call.lookups = <<>>
        /\ call.lockCalls = 0
        /\ call.font = nullptr
        /\ call.aCh \in mCodepointsWithNoFonts

C11_Witness ==
    /\ Searched /\ call.rv = NS_OK
    /\ call.fontList = GenericEntries
    /\ call.aCh = 65
    /\ call.lookups = <<>>
    /\ 65 \in mCodepointsWithNoFonts

\* C16: a FindFontForChar call that returns a font leaves the set as it
\* was; a call changes at most the bit of its own codepoint, and only when
\* it returns null.
C16_OnlyOwnBitOnMiss ==
    [][call'.op = "FindFontForChar" =>
           /\ mCodepointsWithNoFonts' \ mCodepointsWithNoFonts
                  \subseteq {call'.aCh}
           /\ mCodepointsWithNoFonts \subseteq mCodepointsWithNoFonts'
           /\ call'.font # nullptr =>
                  mCodepointsWithNoFonts' = mCodepointsWithNoFonts]_vars

C16_Witness ==
    /\ IsFindFont /\ call.aCh = 12354 /\ call.font = "Mincho"
    /\ 12354 \notin mCodepointsWithNoFonts
    /\ 65 \in mCodepointsWithNoFonts

\* C15: with the product taken modulo 2^32, every request of non-negative
\* width and height whose surface is larger than 4096 bytes gets the OS/2
\* surface: neither a wrapped product nor the negative stride of an
\* oversized width makes it an image surface.  The code compares the
\* wrapped product, and -1 * height, with 4096.
C15_LargeSurfaceIsNative ==
    (/\ call.op = "CreateOffscreenSurface"
     /\ call.width >= 0 /\ call.height >= 0
     /\ \/ call.stride > 0 /\ call.height > 4096 \div call.stride
        \/ call.stride < 0 /\ call.height >= 1) =>
        call.surf = "gfxOS2Surface"

\* thread t is inside FindFontForChar, past the test of the set
PastTest(t) == thread[t].pc \in {"GetFontList", "loop", "set"}

\* thread t is inside FindFontForChar / inside UpdateFontList
InFindFont(t) == thread[t].pc \in {"test", "GetFontList", "loop", "set"}
InUpdate(t) ==
    thread[t].pc \in {"reset", "UpdateFontList", "SetRangeC0", "SetRangeC1"}

\* C12: setting the bit of a codepoint is idempotent: when two
\* FindFontForChar calls (here on two threads) both record the miss of the
\* same codepoint, the second set leaves the whole set as the first left it;
\* a set adds the call's own codepoint and changes no other bit.
C12_SetIsIdempotent ==
    [][\A t \in Threads :
           (thread[t].pc = "set" /\ thread'[t].pc = "idle") =>
               /\ thread[t].aCh \in mCodepointsWithNoFonts'
               /\ mCodepointsWithNoFonts' \ {thread[t].aCh}
                      = mCodepointsWithNoFonts \ {thread[t].aCh}
               /\ recorded[thread[t].aCh].times >= 1 =>
                      mCodepointsWithNoFonts' = mCodepointsWithNoFonts]_vars

C12_Witness ==
    /\ recorded[65].times = 2
    /\ 65 \in mCodepointsWithNoFonts
    /\ \A t \in Threads : thread[t].pc = "idle"

\* C13: the reset is atomic for readers on other threads: a
\* FindFontForChar of a control codepoint never gets past the test of the
\* set, in any interleaving with UpdateFontList.  The code clears the set at
\* line 93 and sets the control ranges only at lines 98-99, with the
\* catalog's refresh in between and no lock.
C13_ControlNeverReachesCatalog ==
    \A t \in Threads :
        PastTest(t) => thread[t].aCh \notin ControlCodepoints

\* C14: no stale negative survives a refresh: when no UpdateFontList is
\* under way, the bit of a non-control codepoint is set only by a call that
\* read the list of the catalog as it is now.  The code lets a call that
\* read the old list set its bit after the reset.
C14_NoStaleNegative ==
    (\A t \in Threads : ~InUpdate(t)) =>
        \A c \in Codepoints :
            (c \in mCodepointsWithNoFonts /\ c \notin ControlCodepoints) =>
                recorded[c].epoch = catalog.epoch

\* the list indexes in `lookups` go up, so no entry is looked up twice
Increasing(lookups) ==
    \A j, k \in 1..Len(lookups) : j < k => lookups[j] < lookups[k]

\* the most GetOrMakeFont calls a list allows: max(0, length - 3)
MaxLookups(fontList) ==
    IF Len(fontList) > 3 THEN Len(fontList) - 3 ELSE 0

\* C17: every FindFontForChar call comes to an end, with a font or null
\* (null after a catalog error); on the way it makes at most one
\* GetFontList call and at most max(0, length - 3) GetOrMakeFont calls,
\* each list entry at most once.
C17_FindFontTerminates ==
    /\ [](\A t \in Threads :
              /\ thread[t].catalogCalls <= 1
              /\ Len(thread[t].lookups) <= MaxLookups(thread[t].fontList)
              /\ Increasing(thread[t].lookups))
    /\ [](IsFindFont =>
              /\ call.font \in Families \cup {nullptr}
              /\ call.rv = NS_ERROR_FAILURE => call.font = nullptr
              /\ call.catalogCalls <= 1
              /\ Len(call.lookups) <= MaxLookups(call.fontList)
              /\ Increasing(call.lookups))
    /\ \A t \in Threads : InFindFont(t) ~> thread[t].pc = "idle"

C17_Witness ==
    /\ IsFindFont /\ call.aCh = 65
    /\ call.fontList = GenericEntries \o <<"Symbol", "Arial">>
    /\ call.lookups = <<3, 4>>
    /\ call.font = "Arial"
    /\ \A t \in Threads : thread[t].pc = "idle"

====
